---- MODULE Spec2Model ----
(***************************************************************************)
(* val_unc: a value paired with an uncertainty payload.                    *)
(*                                                                         *)
(* The crate is a library of pure functions, so each operation is modelled *)
(* as an operator and applied by an action to operands chosen in Init.     *)
(* Four specifications share the variables:                                *)
(*   Spec      the arithmetic operators of ValUnc<V, U> and the tuple      *)
(*             lifting of the Unc* capabilities, V an integer;             *)
(*   SpecInst  the same operators over the instantiations of V and U:      *)
(*             integer and f64 scalars, and the root-sum-square policy     *)
(*             Unc<f64> of unc.rs;                                         *)
(*   SpecZero  the UncZero capability (zero / is_zero / set_zero);         *)
(*   SpecSerde the two serialization bridges (the hand-written visitor of  *)
(*             serde.rs and the untagged ValUncTuple of                    *)
(*             serde_conversion.rs).                                       *)
(***************************************************************************)
EXTENDS Integers, Sequences, FiniteSets, TLC

VARIABLES
    inst,   \* the instantiation of ValUnc<V, U> in use: [V, U]
    a,      \* left operand of an arithmetic operator: [val, unc]
    b,      \* right operand
    op,     \* the operator applied to (a, b), "none" before
    out,    \* its result: [ok, val, unc]
    z,      \* a zero-testable value
    zlast,  \* the last UncZero call: [f, before, after, ret]
    nset,   \* how many set_zero calls were made in a row, up to now
    ent,    \* the entity handed to an encoder
    codec,  \* which bridge is in use: "visitor" or "tuple"
    wire,   \* the encoded data: [shape, elems]
    fmt,    \* how the data format treats sequence elements a visitor left unread
    dec,    \* the decoder's result
    pc      \* position of the serialization bridge

vars == <<inst, a, b, op, out, z, zlast, nset, ent, codec, wire, fmt, dec, pc>>

opsVars == <<inst, a, b, op, out>>
zeroVars == <<z, zlast, nset>>
serdeVars == <<ent, codec, wire, fmt, dec, pc>>

(***************************************************************************)
(* Bounds of the model.                                                    *)
(***************************************************************************)
\* scalar values range over -MaxVal .. MaxVal
MaxVal == 2
\* the largest tuple arity the macros are instantiated for
MaxArity == 12
\* how many UncZero calls a behaviour makes
MaxCalls == 3
\* the numbers in received data range over -MaxTok .. MaxTok
MaxTok == 1
\* the longest sequence in received data
MaxSeqLen == 3
\* the magnitudes held by an Unc<f64> range over 0 .. MaxUnc
MaxUnc == 4

Vals == (0 - MaxVal)..MaxVal

(***************************************************************************)
(* Uncertainty payloads of the arithmetic model.                           *)
(*                                                                         *)
(* U is generic: either one uncertainty type (tuple = FALSE, one element)  *)
(* or a tuple of uncertainty types (tuple = TRUE, 0..MaxArity elements).   *)
(* An element is an atom [ty, x]: a value x of element type ty.  The       *)
(* element types at the positions of a tuple are pairwise different        *)
(* (U0, U1, ...), so a result shows which type's rule produced it.         *)
(***************************************************************************)
Atom(ty, x) == [ty |-> ty, x |-> x]

\* the tuple of arity n whose position i holds 1, except position p, which
\* holds 2 (p = 0: no such position)
TupleOf(n, p) ==
    [tuple |-> TRUE,
     elems |-> [i \in 1..n |-> Atom(i - 1, IF i = p THEN 2 ELSE 1)]]

Single(x) == [tuple |-> FALSE, elems |-> <<Atom(0, x)>>]

Payloads == {TupleOf(n, p) : n \in 0..MaxArity, p \in 0..MaxArity}
                \cup {Single(x) : x \in 1..2}

SameType(u, w) == u.tuple = w.tuple /\ Len(u.elems) = Len(w.elems)

(***************************************************************************)
(* The capability contracts UncAdd / UncDiv / UncMul / UncNeg / UncSub.    *)
(*                                                                         *)
(* The traits fix no formula: each element type supplies its own.  The     *)
(* model keeps an element's rule uninterpreted: its result records the     *)
(* rule and the arguments it was called with, so that any two calls that   *)
(* some implementation could tell apart are different here.                *)
(***************************************************************************)
ElemUncAdd(self, self_val, other, other_val) ==
    [rule |-> "unc_add", su |-> self, sv |-> self_val, ou |-> other, ov |-> other_val]

ElemUncDiv(self, self_val, other, other_val) ==
    [rule |-> "unc_div", su |-> self, sv |-> self_val, ou |-> other, ov |-> other_val]

ElemUncMul(self, self_val, other, other_val) ==
    [rule |-> "unc_mul", su |-> self, sv |-> self_val, ou |-> other, ov |-> other_val]

ElemUncNeg(self, self_val) ==
    [rule |-> "unc_neg", su |-> self, sv |-> self_val]

ElemUncSub(self, self_val, other, other_val) ==
    [rule |-> "unc_sub", su |-> self, sv |-> self_val, ou |-> other, ov |-> other_val]

(***************************************************************************)
(* unc_ops_tuples!: the capabilities of a tuple, one impl per arity.       *)
(* self and other are the sequences of the tuples' elements.               *)
(***************************************************************************)
TupleUncAdd(self, self_val, other, other_val) ==
    [i \in 1..Len(self) |-> ElemUncAdd(self[i], self_val, other[i], other_val)]

TupleUncDiv(self, self_val, other, other_val) ==
    [i \in 1..Len(self) |-> ElemUncDiv(self[i], self_val, other[i], other_val)]

\* a slip of the index: every position combines with the other's first element
TupleUncMul_first(self, self_val, other, other_val) ==
    [i \in 1..Len(self) |-> ElemUncMul(self[i], self_val, other[1], other_val)]

TupleUncMul(self, self_val, other, other_val) ==
    [i \in 1..Len(self) |-> ElemUncMul(self[i], self_val, other[i], other_val)]

TupleUncNeg(self, self_val) ==
    [i \in 1..Len(self) |-> ElemUncNeg(self[i], self_val)]

TupleUncSub(self, self_val, other, other_val) ==
    [i \in 1..Len(self) |-> ElemUncSub(self[i], self_val, other[i], other_val)]

(***************************************************************************)
(* f64.  A float is modelled as the real number it stands for, with the    *)
(* IEEE-754 infinities and NaN: [k, s, n, d] is s * sqrt(n / d) when k is  *)
(* "fin" (s the sign, n / d a fraction in lowest terms, s = 0 iff n = 0),  *)
(* s * infinity when k is "inf", NaN when k is "nan".  Keeping the square  *)
(* of the magnitude makes the square root of a fraction exact.  Rounding   *)
(* and the sign of zero are not modelled; + is applied to fractions only.  *)
(***************************************************************************)
RECURSIVE Gcd(_, _)
Gcd(x, y) == IF y = 0 THEN x ELSE Gcd(y, x % y)

\* the largest r in lo..hi with r * r <= n (lo * lo <= n)
RECURSIVE RootIn(_, _, _)
RootIn(n, lo, hi) ==
    IF lo >= hi THEN lo
    ELSE LET mid == (lo + hi + 1) \div 2
         IN  IF mid * mid <= n THEN RootIn(n, mid, hi) ELSE RootIn(n, lo, mid - 1)

\* the integer square root; 46340 is the largest root of a 32-bit square
ISqrt(n) == RootIn(n, 0, IF n < 46340 THEN n ELSE 46340)

NaN == [k |-> "nan", s |-> 0, n |-> 0, d |-> 1]

Inf(s) == [k |-> "inf", s |-> s, n |-> 0, d |-> 1]

\* s * sqrt(n / d), n >= 0, d > 0
Fin(s, n, d) ==
    IF n = 0 THEN [k |-> "fin", s |-> 0, n |-> 0, d |-> 1]
    ELSE LET g == Gcd(n, d) IN [k |-> "fin", s |-> s, n |-> n \div g, d |-> d \div g]

Sign(i) == IF i > 0 THEN 1 ELSE IF i < 0 THEN 0 - 1 ELSE 0

\* the float of an integer
Flt(i) == Fin(Sign(i), i * i, 1)

f64_neg(x) == [k |-> x.k, s |-> 0 - x.s, n |-> x.n, d |-> x.d]

f64_mul(x, y) ==
    IF x.k = "nan" \/ y.k = "nan" THEN NaN
    ELSE IF x.k = "inf" \/ y.k = "inf"
         THEN IF x.s * y.s = 0 THEN NaN ELSE Inf(x.s * y.s)
    ELSE Fin(x.s * y.s, x.n * y.n, x.d * y.d)

\* a zero divisor is +0.0
f64_div(x, y) ==
    IF x.k = "nan" \/ y.k = "nan" THEN NaN
    ELSE IF x.k = "inf"
         THEN IF y.k = "inf" THEN NaN
              ELSE Inf(IF y.s = 0 THEN x.s ELSE x.s * y.s)
    ELSE IF y.k = "inf" THEN Fin(0, 0, 1)
    ELSE IF y.s = 0 THEN (IF x.s = 0 THEN NaN ELSE Inf(x.s))
    ELSE Fin(x.s * y.s, x.n * y.d, x.d * y.n)

\* x and y finite fractions: their squares n / d are squares of fractions
f64_add(x, y) ==
    IF x.k = "nan" \/ y.k = "nan" THEN NaN
    ELSE IF x.k = "inf"
         THEN IF y.k = "inf" /\ y.s # x.s THEN NaN ELSE x
    ELSE IF y.k = "inf" THEN y
    ELSE LET num == x.s * ISqrt(x.n) * ISqrt(y.d) + y.s * ISqrt(y.n) * ISqrt(x.d)
             den == ISqrt(x.d) * ISqrt(y.d)
         IN  Fin(Sign(num), num * num, den * den)

f64_sub(x, y) == f64_add(x, f64_neg(y))

\* Pow::pow(self, 2)
f64_pow2(x) == f64_mul(x, x)

\* x = sqrt(n / d) is a fraction here, so its root is sqrt(ISqrt(n) / ISqrt(d))
f64_sqrt(x) ==
    IF x.k = "nan" \/ x.s < 0 THEN NaN
    ELSE IF x.k = "inf" THEN x
    ELSE Fin(x.s, ISqrt(x.n), ISqrt(x.d))

Finite(x) == x.k = "fin"

(***************************************************************************)
(* Unc<U> (unc.rs), U = f64: the example policy.  A value Unc(x) is        *)
(* modelled by x.  The policy implements UncAdd, UncDiv, UncMul and        *)
(* UncSub; unc.rs holds no impl of UncNeg for it.                          *)
(***************************************************************************)
Unc_unc_add(self, self_val, other, other_val) ==
    f64_sqrt(f64_add(f64_pow2(self), f64_pow2(other)))

Unc_unc_div(self, self_val, other, other_val) ==
    f64_div(f64_mul(f64_sqrt(f64_add(f64_pow2(f64_div(self, self_val)),
                                     f64_pow2(f64_div(other, other_val)))),
                    self_val),
            other_val)

\* a slip: the relative uncertainty is scaled by one scalar only
Unc_unc_mul_half(self, self_val, other, other_val) ==
    f64_mul(f64_sqrt(f64_add(f64_pow2(f64_div(self, self_val)),
                             f64_pow2(f64_div(other, other_val)))),
            self_val)

Unc_unc_mul(self, self_val, other, other_val) ==
    f64_mul(f64_mul(f64_sqrt(f64_add(f64_pow2(f64_div(self, self_val)),
                                     f64_pow2(f64_div(other, other_val)))),
                    self_val),
            other_val)

Unc_unc_sub(self, self_val, other, other_val) ==
    f64_sqrt(f64_add(f64_pow2(self), f64_pow2(other)))

\* the capabilities unc.rs implements for Unc<U>
UncCaps == {"unc_add", "unc_div", "unc_mul", "unc_sub"}

\* the capabilities of an uninterpreted element type and of the tuples
AllCaps == {"unc_add", "unc_div", "unc_mul", "unc_neg", "unc_sub"}

\* the trait bound U: UncXxx<V> of an operator's impl, for the U in use
Implements(cap) == cap \in (IF inst.U = "Unc" THEN UncCaps ELSE AllCaps)

(***************************************************************************)
(* Trait dispatch on U: the tuple impl for a tuple, else the type's own:   *)
(* the impl of Unc<U> when U is the policy of unc.rs, else the             *)
(* uninterpreted rule of the element type.                                 *)
(***************************************************************************)
unc_add(self, self_val, other, other_val) ==
    [tuple |-> self.tuple,
     elems |-> IF self.tuple
               THEN TupleUncAdd(self.elems, self_val, other.elems, other_val)
               ELSE IF inst.U = "Unc"
               THEN <<Unc_unc_add(self.elems[1], self_val, other.elems[1], other_val)>>
               ELSE <<ElemUncAdd(self.elems[1], self_val, other.elems[1], other_val)>>]

unc_div(self, self_val, other, other_val) ==
    [tuple |-> self.tuple,
     elems |-> IF self.tuple
               THEN TupleUncDiv(self.elems, self_val, other.elems, other_val)
               ELSE IF inst.U = "Unc"
               THEN <<Unc_unc_div(self.elems[1], self_val, other.elems[1], other_val)>>
               ELSE <<ElemUncDiv(self.elems[1], self_val, other.elems[1], other_val)>>]

unc_mul(self, self_val, other, other_val) ==
    [tuple |-> self.tuple,
     elems |-> IF self.tuple
               THEN TupleUncMul(self.elems, self_val, other.elems, other_val)
               ELSE IF inst.U = "Unc"
               THEN <<Unc_unc_mul(self.elems[1], self_val, other.elems[1], other_val)>>
               ELSE <<ElemUncMul(self.elems[1], self_val, other.elems[1], other_val)>>]

unc_neg(self, self_val) ==
    [tuple |-> self.tuple,
     elems |-> IF self.tuple
               THEN TupleUncNeg(self.elems, self_val)
               ELSE <<ElemUncNeg(self.elems[1], self_val)>>]

unc_sub(self, self_val, other, other_val) ==
    [tuple |-> self.tuple,
     elems |-> IF self.tuple
               THEN TupleUncSub(self.elems, self_val, other.elems, other_val)
               ELSE IF inst.U = "Unc"
               THEN <<Unc_unc_sub(self.elems[1], self_val, other.elems[1], other_val)>>
               ELSE <<ElemUncSub(self.elems[1], self_val, other.elems[1], other_val)>>]

(***************************************************************************)
(* The scalar type V.  The model instantiates V with a primitive integer,  *)
(* whose `/` truncates toward zero and panics on a zero divisor, and with  *)
(* f64, whose `/` gives an infinity or NaN on a zero divisor.  The integer *)
(* values are far from the type's limits, so + - * do not overflow.        *)
(***************************************************************************)
Abs(x) == IF x < 0 THEN 0 - x ELSE x

ScalarAdd(x, y) == IF inst.V = "f64" THEN f64_add(x, y) ELSE x + y

ScalarSub(x, y) == IF inst.V = "f64" THEN f64_sub(x, y) ELSE x - y

ScalarMul(x, y) == IF inst.V = "f64" THEN f64_mul(x, y) ELSE x * y

ScalarNeg(x) == IF inst.V = "f64" THEN f64_neg(x) ELSE 0 - x

\* V's `/` panics: an integer divided by zero
DivPanics(x, y) == inst.V = "int" /\ y = 0

\* ~DivPanics(x, y)
ScalarDiv(x, y) ==
    IF inst.V = "f64" THEN f64_div(x, y)
    ELSE IF (x < 0) = (y < 0) THEN Abs(x) \div Abs(y) ELSE 0 - (Abs(x) \div Abs(y))

(***************************************************************************)
(* ValUnc<V, U> and its operators (val_unc.rs).                            *)
(***************************************************************************)
ValUnc(val, unc) == [val |-> val, unc |-> unc]

UnitUnc == [tuple |-> TRUE, elems |-> <<>>]

Done(val, unc) == [ok |-> TRUE, val |-> val, unc |-> unc]

\* the operator panicked: there is no result
Panicked == [ok |-> FALSE, val |-> 0, unc |-> UnitUnc]

NoResult == [ok |-> FALSE, val |-> 0, unc |-> UnitUnc]

\* a slip: the rule is handed the sum instead of the left operand's value
add_result_context(self, other) ==
    Done(ScalarAdd(self.val, other.val),
         unc_add(self.unc, ScalarAdd(self.val, other.val), other.unc, other.val))

add(self, other) ==
    Done(ScalarAdd(self.val, other.val),
         unc_add(self.unc, self.val, other.unc, other.val))

\* a slip: a zero divisor ends the call whatever V is
div_checked(self, other) ==
    IF other.val = (IF inst.V = "f64" THEN Flt(0) ELSE 0)
    THEN Panicked
    ELSE Done(ScalarDiv(self.val, other.val),
              unc_div(self.unc, self.val, other.unc, other.val))

\* the fields are evaluated in order: a panic of V's `/` ends the call
\* before unc_div is reached
div(self, other) ==
    IF DivPanics(self.val, other.val)
    THEN Panicked
    ELSE Done(ScalarDiv(self.val, other.val),
              unc_div(self.unc, self.val, other.unc, other.val))

mul(self, other) ==
    Done(ScalarMul(self.val, other.val),
         unc_mul(self.unc, self.val, other.unc, other.val))

\* a slip: the rule is handed the negated value
neg_negated_context(self) ==
    Done(ScalarNeg(self.val), unc_neg(self.unc, ScalarNeg(self.val)))

neg(self) ==
    Done(ScalarNeg(self.val), unc_neg(self.unc, self.val))

sub(self, other) ==
    Done(ScalarSub(self.val, other.val),
         unc_sub(self.unc, self.val, other.unc, other.val))

(***************************************************************************)
(* Arithmetic: operands drawn in Init, one operator applied to them.       *)
(***************************************************************************)
NoCall == [f |-> "none", before |-> UnitUnc, after |-> UnitUnc, ret |-> FALSE]

ZeroIdle == z = UnitUnc /\ zlast = NoCall /\ nset = 0

SerdeIdle ==
    /\ ent = ValUnc(0, UnitUnc)
    /\ codec = "none"
    /\ wire = [shape |-> "none", elems |-> <<>>]
    /\ fmt = "none"
    /\ dec = [ok |-> FALSE, kind |-> "none", pos |-> 0, val |-> 0, unc |-> UnitUnc]
    /\ pc = "idle"

IntGeneric == [V |-> "int", U |-> "generic"]

OpsIdle ==
    /\ inst = IntGeneric
    /\ a = ValUnc(0, UnitUnc)
    /\ b = ValUnc(0, UnitUnc)
    /\ op = "none"
    /\ out = NoResult

Init ==
    /\ inst = IntGeneric
    /\ a \in {ValUnc(v, u) : v \in Vals, u \in Payloads}
    /\ b \in {ValUnc(v, u) : v \in Vals, u \in {w \in Payloads : SameType(w, a.unc)}}
    /\ op = "none"
    /\ out = NoResult
    /\ ZeroIdle
    /\ SerdeIdle

Add ==
    /\ op = "none"
    /\ Implements("unc_add")
    /\ op' = "add"
    /\ out' = add(a, b)
    /\ UNCHANGED <<inst, a, b, zeroVars, serdeVars>>

Div ==
    /\ op = "none"
    /\ Implements("unc_div")
    /\ op' = "div"
    /\ out' = div(a, b)
    /\ UNCHANGED <<inst, a, b, zeroVars, serdeVars>>

Mul ==
    /\ op = "none"
    /\ Implements("unc_mul")
    /\ op' = "mul"
    /\ out' = mul(a, b)
    /\ UNCHANGED <<inst, a, b, zeroVars, serdeVars>>

Neg ==
    /\ op = "none"
    /\ Implements("unc_neg")
    /\ op' = "neg"
    /\ out' = neg(a)
    /\ UNCHANGED <<inst, a, b, zeroVars, serdeVars>>

Sub ==
    /\ op = "none"
    /\ Implements("unc_sub")
    /\ op' = "sub"
    /\ out' = sub(a, b)
    /\ UNCHANGED <<inst, a, b, zeroVars, serdeVars>>

Next == Add \/ Div \/ Mul \/ Neg \/ Sub

Spec == Init /\ [][Next]_vars

(***************************************************************************)
(* Helpers of the arithmetic claims.                                       *)
(***************************************************************************)
BinaryOps == {"add", "sub", "mul", "div"}

\* V's scalar operator for a binary operator of ValUnc
ScalarOp(o, x, y) ==
    CASE o = "add" -> ScalarAdd(x, y)
      [] o = "sub" -> ScalarSub(x, y)
      [] o = "mul" -> ScalarMul(x, y)
      [] o = "div" -> ScalarDiv(x, y)

\* the capability rule that matches an operator, on whole payloads
UncOp(o, su, sv, ou, ov) ==
    CASE o = "add" -> unc_add(su, sv, ou, ov)
      [] o = "sub" -> unc_sub(su, sv, ou, ov)
      [] o = "mul" -> unc_mul(su, sv, ou, ov)
      [] o = "div" -> unc_div(su, sv, ou, ov)
      [] o = "neg" -> unc_neg(su, sv)

\* the rule of one element type
ElemOp(o, su, sv, ou, ov) ==
    CASE o = "add" -> ElemUncAdd(su, sv, ou, ov)
      [] o = "sub" -> ElemUncSub(su, sv, ou, ov)
      [] o = "mul" -> ElemUncMul(su, sv, ou, ov)
      [] o = "div" -> ElemUncDiv(su, sv, ou, ov)
      [] o = "neg" -> ElemUncNeg(su, sv)

\* the tuples of u's arity
SameArity(u) == {TupleOf(Len(u.elems), p) : p \in 0..Len(u.elems)}

(***************************************************************************)
(* C1: for each binary operator op of ValUnc (add, sub, mul, div) the      *)
(* result's val is V's scalar operator applied to (a.val, b.val), and the  *)
(* result's unc is the matching capability rule applied to exactly         *)
(* (a.unc, a.val, b.unc, b.val): left operand first, right operand second, *)
(* and the scalars are the operands' own values, not the result's.         *)
(***************************************************************************)
C1_OperatorsUseOperands ==
    (op \in BinaryOps /\ out.ok) =>
        /\ out.val = ScalarOp(op, a.val, b.val)
        /\ out.unc = UncOp(op, a.unc, a.val, b.unc, b.val)
        /\ \A i \in 1..Len(out.unc.elems) :
               /\ out.unc.elems[i].rule = "unc_" \o op
               /\ out.unc.elems[i].su = a.unc.elems[i]
               /\ out.unc.elems[i].sv = a.val
               /\ out.unc.elems[i].ou = b.unc.elems[i]
               /\ out.unc.elems[i].ov = b.val

\* an operator has produced a value that differs from both operands' scalars,
\* from operands that differ in scalar and in payload
C1_Witness ==
    /\ op = "sub"
    /\ out.ok
    /\ a.val # b.val
    /\ out.val \notin {a.val, b.val}
    /\ a.unc # b.unc
    /\ ~a.unc.tuple

(***************************************************************************)
(* C2: the rule of a tuple of arity 0..12 returns a tuple of the same      *)
(* arity whose position i is element type Ti's rule applied to             *)
(* (self[i], self_val, other[i], other_val) (unc_neg: (self[i], self_val));*)
(* position i of the result does not depend on any other position of the   *)
(* operands; the empty tuple gives the empty tuple.                        *)
(***************************************************************************)
C2_TupleRulePositionwise ==
    (op # "none" /\ out.ok /\ a.unc.tuple) =>
        /\ out.unc.tuple
        /\ Len(out.unc.elems) = Len(a.unc.elems)
        /\ \A i \in 1..Len(a.unc.elems) :
               out.unc.elems[i] =
                   ElemOp(op, a.unc.elems[i], a.val, b.unc.elems[i], b.val)
        /\ \A i \in 1..Len(a.unc.elems) : out.unc.elems[i].su.ty = i - 1
        /\ \A u \in SameArity(a.unc) :
               LET r == UncOp(op, u, a.val, b.unc, b.val).elems
               IN  \A i \in 1..Len(a.unc.elems) :
                       u.elems[i] = a.unc.elems[i] => r[i] = out.unc.elems[i]
        /\ \A w \in SameArity(b.unc) :
               LET r == UncOp(op, a.unc, a.val, w, b.val).elems
               IN  \A i \in 1..Len(a.unc.elems) :
                       w.elems[i] = b.unc.elems[i] => r[i] = out.unc.elems[i]
        /\ (a.unc = UnitUnc => out.unc = UnitUnc)

\* a rule was applied to two tuples of the largest arity that differ at one
\* position and agree at the others
C2_Witness ==
    /\ op = "div"
    /\ out.ok
    /\ a.unc.tuple
    /\ Len(a.unc.elems) = MaxArity
    /\ a.unc.elems[3].x # b.unc.elems[3].x
    /\ a.unc.elems[MaxArity].x = b.unc.elems[MaxArity].x
    /\ out.unc.elems[3] # out.unc.elems[MaxArity]

\* the empty tuple was negated
C2_WitnessUnit == op = "neg" /\ a.unc = UnitUnc /\ out.ok

(***************************************************************************)
(* The operators over the instantiations of V and U.                       *)
(***************************************************************************)
F64Generic == [V |-> "f64", U |-> "generic"]

F64Unc == [V |-> "f64", U |-> "Unc"]

Insts == {IntGeneric, F64Generic, F64Unc}

\* Unc(x)
UncOf(x) == [tuple |-> FALSE, elems |-> <<x>>]

\* the scalars of the additions in the crate's tests
TestVals == {1, 5}

GenericPayloads == {UnitUnc, TupleOf(2, 0), TupleOf(2, 1)} \cup {Single(x) : x \in 1..2}

ScalarsOf(i) ==
    IF i.V = "int" THEN Vals
    ELSE IF i.U = "Unc" THEN {Flt(v) : v \in Vals \cup TestVals}
    ELSE {Flt(v) : v \in Vals}

PayloadsOf(i) ==
    IF i.U = "Unc" THEN {UncOf(Flt(x)) : x \in 0..MaxUnc} ELSE GenericPayloads

InitInst ==
    /\ inst \in Insts
    /\ a \in {ValUnc(v, u) : v \in ScalarsOf(inst), u \in PayloadsOf(inst)}
    /\ b \in {ValUnc(v, u) : v \in ScalarsOf(inst),
                             u \in {w \in PayloadsOf(inst) : SameType(w, a.unc)}}
    /\ op = "none"
    /\ out = NoResult
    /\ ZeroIdle
    /\ SerdeIdle

SpecInst == InitInst /\ [][Next]_vars

\* -x, written without the model's operators
Negated(x) == IF inst.V = "f64" THEN [x EXCEPT !.s = 0 - x.s] ELSE 0 - x

IsZeroScalar(x) == IF inst.V = "f64" THEN x.k = "fin" /\ x.s = 0 ELSE x = 0

(***************************************************************************)
(* C11 as stated: negating an entity gives the negated scalar and the      *)
(* payload unc_neg(a.unc, a.val), called with the scalar before negation   *)
(* and with no other operand; and under the crate's policy Unc an entity   *)
(* can be negated and its negation carries the payload a.unc unchanged.    *)
(* The last part fails: unc.rs implements no UncNeg for Unc, so the bound  *)
(* U: UncNeg<V> of impl Neg is not met and there is no negation to apply.  *)
(***************************************************************************)
C11_NegationUnderUncPolicy ==
    /\ op = "neg" =>
          /\ out.ok
          /\ out.val = Negated(a.val)
          /\ out.unc = unc_neg(a.unc, a.val)
    /\ (inst.U = "Unc" /\ op = "none") => ENABLED Neg
    /\ (inst.U = "Unc" /\ op = "neg") => out.unc = a.unc

(***************************************************************************)
(* C11, amended: negating an entity gives the negated scalar and a payload *)
(* of the same shape whose every position is the element's unc_neg rule    *)
(* applied to that position of a.unc and to a.val, the scalar before       *)
(* negation, and to nothing else; the unit payload is returned unchanged;  *)
(* an entity whose payload is the crate's policy Unc has no negation.      *)
(***************************************************************************)
C11_Negation ==
    /\ op = "neg" =>
          /\ out.ok
          /\ out.val = Negated(a.val)
          /\ out.unc.tuple = a.unc.tuple
          /\ Len(out.unc.elems) = Len(a.unc.elems)
          /\ \A i \in 1..Len(a.unc.elems) :
                out.unc.elems[i] =
                    [rule |-> "unc_neg", su |-> a.unc.elems[i], sv |-> a.val]
          /\ a.unc = UnitUnc => out.unc = a.unc
    /\ inst.U = "Unc" => op # "neg" /\ ~ENABLED Neg

\* a non-zero float scalar with a two-element payload was negated
C11_Witness ==
    /\ op = "neg"
    /\ inst = F64Generic
    /\ ~IsZeroScalar(a.val)
    /\ Len(a.unc.elems) = 2
    /\ out.ok

\* an integer scalar with a single uncertainty was negated
C11_WitnessInt ==
    /\ op = "neg"
    /\ inst = IntGeneric
    /\ a.val = 1
    /\ ~a.unc.tuple
    /\ out.ok

(***************************************************************************)
(* UncZero (traits/num.rs, unc.rs).                                        *)
(*                                                                         *)
(* A zero-testable value is one element (tuple = FALSE) or a tuple of      *)
(* elements (tuple = TRUE; arity 0 is the unit type).  An element is       *)
(* [ty, wrap, n]: the number n of primitive type ty, inside the Unc<T>     *)
(* wrapper when wrap.                                                      *)
(***************************************************************************)
PrimTypes ==
    <<"usize", "u8", "u16", "u32", "u64", "u128",
      "isize", "i8", "i16", "i32", "i64", "i128", "f32", "f64">>

Unsigned == {"usize", "u8", "u16", "u32", "u64", "u128"}

Elem(ty, wrap, n) == [ty |-> ty, wrap |-> wrap, n |-> n]

\* a slip: One::one() for Zero::zero()
prim_zero_one(ty) == Elem(ty, FALSE, 1)

\* unc_zero_impl!: the primitive numeric types, through num_traits::Zero
prim_zero(ty) == Elem(ty, FALSE, 0)

prim_is_zero(self) == self.n = 0

prim_set_zero(self) == Elem(self.ty, FALSE, 0)

\* impl UncZero for Unc<T>
Unc_zero(ty) == Elem(ty, TRUE, 0)

Unc_is_zero(self) == self.n = 0

Unc_set_zero(self) == Elem(self.ty, TRUE, 0)

\* trait dispatch on an element's type
ElemZero(t) == IF t.wrap THEN Unc_zero(t.ty) ELSE prim_zero(t.ty)

ElemIsZero(self) == IF self.wrap THEN Unc_is_zero(self) ELSE prim_is_zero(self)

ElemSetZero(self) == IF self.wrap THEN Unc_set_zero(self) ELSE prim_set_zero(self)

\* impl UncZero for ()
unit_zero == <<>>

unit_is_zero == TRUE

unit_set_zero == <<>>

\* unc_num_tuples!: arity 1..12; ts, self are the sequences of the elements
tuple_zero(ts) == [i \in 1..Len(ts) |-> ElemZero(ts[i])]

\* a slip: || for &&
tuple_is_zero_any(self) == \E i \in 1..Len(self) : ElemIsZero(self[i])

tuple_is_zero(self) == \A i \in 1..Len(self) : ElemIsZero(self[i])

\* a slip: the last component is left as it was
tuple_set_zero_short(self) ==
    [i \in 1..Len(self) |-> IF i = Len(self) THEN self[i] ELSE ElemSetZero(self[i])]

tuple_set_zero(self) == [i \in 1..Len(self) |-> ElemSetZero(self[i])]

\* trait dispatch on the value's type; zero() is static: t only carries the type
zero(t) ==
    [tuple |-> t.tuple,
     elems |-> IF ~t.tuple THEN <<ElemZero(t.elems[1])>>
               ELSE IF Len(t.elems) = 0 THEN unit_zero
               ELSE tuple_zero(t.elems)]

is_zero(self) ==
    IF ~self.tuple THEN ElemIsZero(self.elems[1])
    ELSE IF Len(self.elems) = 0 THEN unit_is_zero
    ELSE tuple_is_zero(self.elems)

set_zero(self) ==
    [tuple |-> self.tuple,
     elems |-> IF ~self.tuple THEN <<ElemSetZero(self.elems[1])>>
               ELSE IF Len(self.elems) = 0 THEN unit_set_zero
               ELSE tuple_set_zero(self.elems)]

(***************************************************************************)
(* The zero-testable values the model starts from.                         *)
(***************************************************************************)
\* the element type at position i of the model's tuples
TyAt(i) == PrimTypes[((i - 1) % Len(PrimTypes)) + 1]

WrapAt(i) == i % 3 = 0

\* a non-zero number of type ty
NonZero(ty) == IF ty \in Unsigned THEN 1 ELSE 0 - 1

NumsOf(ty) == IF ty \in Unsigned THEN 0..MaxVal ELSE Vals

ZTuples ==
    {[tuple |-> TRUE,
      elems |-> [i \in 1..n |->
                    Elem(TyAt(i), WrapAt(i), IF nz[i] THEN NonZero(TyAt(i)) ELSE 0)]] :
        n \in 0..MaxArity, nz \in [1..MaxArity -> BOOLEAN]}

ZSingles ==
    {[tuple |-> FALSE, elems |-> <<Elem(PrimTypes[k], w, n)>>] :
        k \in 1..Len(PrimTypes), w \in BOOLEAN, n \in Vals}

ZValues == ZTuples \cup {s \in ZSingles : s.elems[1].n \in NumsOf(s.elems[1].ty)}

InitZero ==
    /\ z \in ZValues
    /\ zlast = NoCall
    /\ nset = 0
    /\ OpsIdle
    /\ SerdeIdle

\* UncZero::zero(): a new value of z's type replaces z
Zero ==
    /\ z' = zero(z)
    /\ zlast' = [f |-> "zero", before |-> z, after |-> z', ret |-> FALSE]
    /\ nset' = 0
    /\ UNCHANGED <<opsVars, serdeVars>>

IsZero ==
    /\ zlast' = [f |-> "is_zero", before |-> z, after |-> z, ret |-> is_zero(z)]
    /\ UNCHANGED <<z, nset, opsVars, serdeVars>>

SetZero ==
    /\ nset < MaxCalls
    /\ z' = set_zero(z)
    /\ zlast' = [f |-> "set_zero", before |-> z, after |-> z', ret |-> FALSE]
    /\ nset' = nset + 1
    /\ UNCHANGED <<opsVars, serdeVars>>

NextZero == Zero \/ IsZero \/ SetZero

SpecZero == InitZero /\ [][NextZero]_vars

(***************************************************************************)
(* C8: is_zero(zero()) is true for every zero-testable type: the primitive *)
(* numeric types, the unit type, Unc<T>, and the tuples of arity 0..12.    *)
(***************************************************************************)
C8_ZeroIsZero ==
    zlast.f = "zero" =>
        /\ z = zlast.after
        /\ is_zero(z)
        /\ \A i \in 1..Len(z.elems) : ElemIsZero(z.elems[i]) /\ z.elems[i].n = 0

\* zero() was called for a tuple of the largest arity, whose value before
\* was not zero
C8_Witness ==
    /\ zlast.f = "zero"
    /\ z.tuple
    /\ Len(z.elems) = MaxArity
    /\ \A i \in 1..MaxArity : zlast.before.elems[i].n # 0

(***************************************************************************)
(* C9: after set_zero the value is zero (is_zero holds and the value is    *)
(* zero()), and set_zero is idempotent: a further set_zero leaves the      *)
(* value as the first one made it.                                         *)
(***************************************************************************)
C9_SetZeroIdempotent ==
    /\ nset >= 1 => (is_zero(z) /\ z = zero(z))
    /\ zlast.f = "set_zero" =>
           /\ z = zlast.after
           /\ \A i \in 1..Len(z.elems) : z.elems[i].n = 0
           /\ nset >= 2 => zlast.after = zlast.before

\* set_zero was called twice in a row
C9_Witness ==
    /\ zlast.f = "set_zero"
    /\ nset = 2
    /\ z.tuple
    /\ Len(z.elems) = MaxArity

\* set_zero was called on a value that was not zero
C9_WitnessNonZero ==
    /\ zlast.f = "set_zero"
    /\ nset = 1
    /\ \E i \in 1..Len(z.elems) : zlast.before.elems[i].n # 0

(***************************************************************************)
(* C10: for a tuple of arity 1..12, is_zero is true iff every component's  *)
(* is_zero is true (one non-zero component, wherever it is, makes the      *)
(* tuple non-zero); zero() is the tuple of the components' zero();         *)
(* set_zero resets every component; the unit tuple is always zero.         *)
(***************************************************************************)
C10_TupleZeroComponentwise ==
    LET x == zlast.before
        y == zlast.after
        n == Len(x.elems)
    IN  (zlast.f # "none" /\ x.tuple) =>
            /\ Len(y.elems) = n /\ y.tuple
            /\ zlast.f = "is_zero" =>
                   /\ zlast.ret <=> (\A i \in 1..n : ElemIsZero(x.elems[i]))
                   /\ (\E i \in 1..n : x.elems[i].n # 0) => ~zlast.ret
                   /\ n = 0 => zlast.ret
                   /\ y = x
            /\ zlast.f = "zero" =>
                   \A i \in 1..n : y.elems[i] = ElemZero(x.elems[i])
            /\ zlast.f = "set_zero" =>
                   \A i \in 1..n :
                       /\ y.elems[i] = ElemSetZero(x.elems[i])
                       /\ y.elems[i].n = 0
                       /\ y.elems[i].ty = x.elems[i].ty
                       /\ y.elems[i].wrap = x.elems[i].wrap

\* is_zero was asked of a tuple of the largest arity whose only non-zero
\* component is the last one
C10_Witness ==
    /\ zlast.f = "is_zero"
    /\ zlast.before.tuple
    /\ Len(zlast.before.elems) = MaxArity
    /\ zlast.before.elems[MaxArity].n # 0
    /\ \A i \in 1..(MaxArity - 1) : zlast.before.elems[i].n = 0
    /\ ~zlast.ret

(***************************************************************************)
(* Serialization bridges.                                                  *)
(*                                                                         *)
(* Encoded data is a bare token (shape "bare", one element) or a sequence  *)
(* of tokens (shape "seq").  A token [ty, n] is a number n as the data     *)
(* format presents it -- "i64", "u64" or "f64" -- or something that is no  *)
(* number ("str").  V is f64; U is f64 or Unc<f64>.  A number of the       *)
(* program is an Elem, so that a token and the value decoded from it are   *)
(* different things and the cast between them is modelled.                 *)
(***************************************************************************)
Tok(ty, n) == [ty |-> ty, n |-> n]

Bare(t) == [shape |-> "bare", elems |-> <<t>>]

SeqOf(ts) == [shape |-> "seq", elems |-> ts]

F64(n) == Elem("f64", FALSE, n)

Numeric(t) == t.ty \in {"i64", "u64", "f64"}

\* `v as f64`, and f64's own Deserialize for a numeric token; exact for the
\* numbers of the model, which are far below 2^53
as_f64(t) == F64(t.n)

\* a payload of U's type from a numeric token; Unc<T> is serde(transparent)
as_unc(u, t) == [tuple |-> FALSE, elems |-> <<Elem("f64", u.elems[1].wrap, t.n)>>]

\* f64 and Unc<f64> serialize as one f64 token
ser_f64(x) == Tok("f64", x.n)

\* Default::default() of U's type (derive(Default) for Unc<T>)
default(u) == [tuple |-> FALSE, elems |-> <<Elem(u.elems[1].ty, u.elems[1].wrap, 0)>>]

NoPos == 0 - 1

Ok(v) == [ok |-> TRUE, kind |-> "ok", pos |-> NoPos, val |-> v.val, unc |-> v.unc]

Err(kind, pos) ==
    [ok |-> FALSE, kind |-> kind, pos |-> pos, val |-> F64(0), unc |-> UnitUnc]

\* impl From<V> for ValUnc<V, U>; u carries U's type
ValUnc_from(val, u) == ValUnc(val, default(u))

(***************************************************************************)
(* serde.rs: the hand-written Serialize / Deserialize of ValUnc.           *)
(***************************************************************************)
\* (self.val, self.unc).serialize(s)
serialize(self) == SeqOf(<<ser_f64(self.val), ser_f64(self.unc.elems[1])>>)

visit_f64(v, u) == Ok(ValUnc_from(v, u))

visit_i64(t, u) == visit_f64(as_f64(t), u)

\* a slip: visit_u64 is not overridden, so the trait's default answers
visit_u64_default(t, u) == Err("invalid_type", NoPos)

visit_u64(t, u) == visit_f64(as_f64(t), u)

\* a slip: unwrap_or_default() for the ok_or_else of the second element
visit_seq_defaulting(seq, u) ==
    IF Len(seq) = 0 THEN Err("invalid_length", 0)
    ELSE IF ~Numeric(seq[1]) THEN Err("invalid_type", 0)
    ELSE IF Len(seq) = 1 THEN Ok(ValUnc(as_f64(seq[1]), default(u)))
    ELSE IF ~Numeric(seq[2]) THEN Err("invalid_type", 1)
    ELSE Ok(ValUnc(as_f64(seq[1]), as_unc(u, seq[2])))

\* seq.next_element()? on the elements in turn; an element that is no number
\* is the data format's error for that element, passed on by `?`
visit_seq(seq, u) ==
    IF Len(seq) = 0 THEN Err("invalid_length", 0)
    ELSE IF ~Numeric(seq[1]) THEN Err("invalid_type", 0)
    ELSE IF Len(seq) = 1 THEN Err("invalid_length", 1)
    ELSE IF ~Numeric(seq[2]) THEN Err("invalid_type", 1)
    ELSE Ok(ValUnc(as_f64(seq[1]), as_unc(u, seq[2])))

\* d.deserialize_any(ValUncVisitor).  The visitor implements visit_i64,
\* visit_u64, visit_f64 and visit_seq; every other visit_* is the trait's
\* default, an invalid_type error.  When visit_seq returns Ok and left
\* elements unread, the outcome is the data format's: f = "lax" returns the
\* visitor's value, "trailing" fails with the format's syntax error,
\* "length" fails with invalid_length.
deserialize(w, u, f) ==
    IF w.shape = "bare"
    THEN CASE w.elems[1].ty = "i64" -> visit_i64(w.elems[1], u)
           [] w.elems[1].ty = "u64" -> visit_u64(w.elems[1], u)
           [] w.elems[1].ty = "f64" -> visit_f64(as_f64(w.elems[1]), u)
           [] OTHER -> Err("invalid_type", NoPos)
    ELSE LET r == visit_seq(w.elems, u)
         IN  IF r.ok /\ Len(w.elems) > 2 /\ f # "lax"
             THEN IF f = "length"
                  THEN Err("invalid_length", Len(w.elems))
                  ELSE Err("trailing", NoPos)
             ELSE r

(***************************************************************************)
(* serde_conversion.rs: ValUncTuple, the untagged two-variant enum.        *)
(***************************************************************************)
NoUnc(val) == [variant |-> "NoUnc", val |-> val, unc |-> UnitUnc]

Unc(val, unc) == [variant |-> "Unc", val |-> val, unc |-> unc]

\* impl From<ValUncTuple<V, U>> for ValUnc<V, U>; u carries U's type
ValUnc_from_ValUncTuple(v, u) ==
    IF v.variant = "NoUnc" THEN ValUnc_from(v.val, u) ELSE ValUnc(v.val, v.unc)

\* a slip: the value is tested for zero instead of the uncertainty
ValUncTuple_from_ValUnc_val(v) ==
    IF prim_is_zero(v.val) THEN NoUnc(v.val) ELSE Unc(v.val, v.unc)

\* impl From<ValUnc<V, U>> for ValUncTuple<V, U>
ValUncTuple_from_ValUnc(v) ==
    IF is_zero(v.unc) THEN NoUnc(v.val) ELSE Unc(v.val, v.unc)

\* derive(Serialize), untagged: a variant is written as its content alone
ValUncTuple_serialize(t) ==
    IF t.variant = "NoUnc"
    THEN Bare(ser_f64(t.val))
    ELSE SeqOf(<<ser_f64(t.val), ser_f64(t.unc.elems[1])>>)

\* derive(Deserialize), untagged: the variants are tried in the order of
\* their declaration against the buffered data, and the first that matches
\* is the result; a tuple variant matches a sequence of exactly its length.
\* When none matches the error names no variant and no position.
ValUncTuple_deserialize(w, u) ==
    IF w.shape = "bare" /\ Numeric(w.elems[1])
    THEN [ok |-> TRUE, t |-> NoUnc(as_f64(w.elems[1]))]
    ELSE IF w.shape = "seq" /\ Len(w.elems) = 2
            /\ Numeric(w.elems[1]) /\ Numeric(w.elems[2])
    THEN [ok |-> TRUE, t |-> Unc(as_f64(w.elems[1]), as_unc(u, w.elems[2]))]
    ELSE [ok |-> FALSE, t |-> NoUnc(F64(0))]

\* the bridge out: convert to ValUncTuple, then serialize that
serialize_into(self) == ValUncTuple_serialize(ValUncTuple_from_ValUnc(self))

\* the bridge in: deserialize a ValUncTuple, then convert it
deserialize_from(w, u) ==
    LET r == ValUncTuple_deserialize(w, u)
    IN  IF r.ok THEN Ok(ValUnc_from_ValUncTuple(r.t, u)) ELSE Err("no_variant", NoPos)

(***************************************************************************)
(* Serialization: an entity is encoded and decoded again, or data that     *)
(* came from elsewhere is decoded.                                         *)
(***************************************************************************)
Toks ==
    {Tok("i64", n) : n \in (0 - MaxTok)..MaxTok}
        \cup {Tok("u64", n) : n \in 0..MaxTok}
        \cup {Tok("f64", n) : n \in (0 - MaxTok)..MaxTok}
        \cup {Tok("str", 0)}

SeqsUpTo(k) == UNION {[1..n -> Toks] : n \in 0..k}

\* bare data also holds the integer 5, as i64 and as u64
BareToks == Toks \cup {Tok("i64", 5), Tok("u64", 5)}

Inputs == {Bare(t) : t \in BareToks} \cup {SeqOf(ts) : ts \in SeqsUpTo(MaxSeqLen)}

\* the payloads of U = f64 (w = FALSE) and U = Unc<f64> (w = TRUE)
UncsOf(w) == {[tuple |-> FALSE, elems |-> <<Elem("f64", w, n)>>] : n \in Vals}

NoWire == [shape |-> "none", elems |-> <<>>]

NoDec == Err("none", NoPos)

\* the hand-written impls are for U = f64; the data formats differ only in
\* what they do after visit_seq, which the untagged enum never reaches
InitSerde ==
    /\ codec \in {"visitor", "tuple"}
    /\ fmt \in IF codec = "visitor" THEN {"lax", "trailing", "length"} ELSE {"length"}
    /\ \/ /\ pc = "start"
          /\ ent \in {ValUnc(F64(v), u) :
                         v \in Vals, u \in UncsOf(FALSE) \cup
                                          (IF codec = "tuple" THEN UncsOf(TRUE) ELSE {})}
          /\ wire = NoWire
       \/ /\ pc = "received"
          /\ ent \in {ValUnc(F64(0), default(u)) :
                         u \in UncsOf(FALSE) \cup
                                  (IF codec = "tuple" THEN UncsOf(TRUE) ELSE {})}
          /\ wire \in Inputs
    /\ dec = NoDec
    /\ OpsIdle
    /\ ZeroIdle

AfterDecode == IF pc = "encoded" THEN "roundtrip" ELSE "decoded"

\* impl Serialize for ValUnc (serde.rs)
Serialize ==
    /\ pc = "start"
    /\ codec = "visitor"
    /\ wire' = serialize(ent)
    /\ pc' = "encoded"
    /\ UNCHANGED <<ent, codec, fmt, dec, opsVars, zeroVars>>

\* impl Deserialize for ValUnc (serde.rs)
Deserialize ==
    /\ pc \in {"encoded", "received"}
    /\ codec = "visitor"
    /\ dec' = deserialize(wire, ent.unc, fmt)
    /\ pc' = AfterDecode
    /\ UNCHANGED <<ent, codec, wire, fmt, opsVars, zeroVars>>

\* Serialize of ValUnc<V, U> through ValUncTuple (serde_conversion.rs)
SerializeInto ==
    /\ pc = "start"
    /\ codec = "tuple"
    /\ wire' = serialize_into(ent)
    /\ pc' = "encoded"
    /\ UNCHANGED <<ent, codec, fmt, dec, opsVars, zeroVars>>

\* Deserialize of ValUnc<V, U> through ValUncTuple (serde_conversion.rs)
DeserializeFrom ==
    /\ pc \in {"encoded", "received"}
    /\ codec = "tuple"
    /\ dec' = deserialize_from(wire, ent.unc)
    /\ pc' = AfterDecode
    /\ UNCHANGED <<ent, codec, wire, fmt, opsVars, zeroVars>>

NextSerde == Serialize \/ Deserialize \/ SerializeInto \/ DeserializeFrom

SpecSerde == InitSerde /\ [][NextSerde]_vars

(***************************************************************************)
(* Helpers of the serialization claims.                                    *)
(***************************************************************************)
\* the pair (val, unc) as encoded data
PairOf(e) == SeqOf(<<ser_f64(e.val), ser_f64(e.unc.elems[1])>>)

\* the sequence lacks one of the two fields, or holds something that does
\* not convert where a field is expected
BadFields(ts) ==
    \/ Len(ts) < 2
    \/ ~Numeric(ts[1])
    \/ ~Numeric(ts[2])

\* the field that is missing or does not convert: 0 = value, 1 = uncertainty
OffendingField(ts) == IF Len(ts) = 0 \/ ~Numeric(ts[1]) THEN 0 ELSE 1

(***************************************************************************)
(* C3: encoding a paired entity gives the bare value when is_zero(unc)     *)
(* holds and the two-element pair (val, unc) otherwise; the shape depends  *)
(* on is_zero(unc) alone, for every entity.                                *)
(* The encoder of serde.rs breaks it: it writes the pair for every entity. *)
(***************************************************************************)
C3_EncodeShapeByIsZero ==
    pc = "encoded" =>
        wire = IF is_zero(ent.unc) THEN Bare(ser_f64(ent.val)) ELSE PairOf(ent)

(***************************************************************************)
(* C4: encoding then decoding an entity whose uncertainty is zero gives    *)
(* the entity with unc the default; with a non-zero uncertainty it gives   *)
(* the entity itself (same val, same unc).  The encoded data holds the     *)
(* fields and no tag: the decoder tells the shapes apart by structure.     *)
(***************************************************************************)
C4_RoundTrip ==
    pc = "roundtrip" =>
        /\ dec.ok
        /\ dec.val = ent.val
        /\ dec.unc = IF is_zero(ent.unc) THEN default(ent.unc) ELSE ent.unc
        /\ wire \in {Bare(ser_f64(ent.val)), PairOf(ent)}
        /\ codec = "tuple" => (wire.shape = "bare" <=> is_zero(ent.unc))

\* an entity with zero uncertainty went through the bridge as a bare value
C4_WitnessZero ==
    /\ pc = "roundtrip"
    /\ codec = "tuple"
    /\ is_zero(ent.unc)
    /\ ent.val.n # 0
    /\ wire.shape = "bare"
    /\ dec.ok

\* an entity with a non-zero Unc<f64> and the value zero went through the
\* bridge as a pair
C4_WitnessNonZero ==
    /\ pc = "roundtrip"
    /\ codec = "tuple"
    /\ ent.unc.elems[1].wrap
    /\ ent.unc.elems[1].n # 0
    /\ ent.val.n = 0
    /\ wire.shape = "seq"
    /\ dec.ok

C5_WitnessSigned ==
    /\ pc = "decoded"
    /\ codec = "tuple"
    /\ wire.shape = "bare"
    /\ wire.elems[1].ty = "i64"
    /\ wire.elems[1].n < 0
    /\ dec.ok

(***************************************************************************)
(* C6: decoding a sequence of three or more elements fails (with a         *)
(* length-mismatch error); it never succeeds by taking the first two       *)
(* elements as (val, unc) and dropping the rest.                           *)
(* visit_seq breaks it: it reads two elements and returns Ok, and no code  *)
(* of the crate looks at the elements left.  The formula states no more    *)
(* than that the decoding fails.                                           *)
(***************************************************************************)
C6_LongSequenceRejected ==
    (pc = "decoded" /\ wire.shape = "seq" /\ Len(wire.elems) >= 3) => ~dec.ok

C7_WitnessMismatch ==
    /\ pc = "decoded"
    /\ codec = "visitor"
    /\ wire.shape = "seq"
    /\ Len(wire.elems) = 2
    /\ Numeric(wire.elems[1])
    /\ ~Numeric(wire.elems[2])
    /\ ~dec.ok

(***************************************************************************)
(* C12 as stated: when the divisor's scalar is zero, the division still    *)
(* returns an entity whose payload is unc_div applied to the operands      *)
(* (a.unc, a.val, b.unc, b.val), for floating and for integer scalars.     *)
(* It fails for an integer V: `val: self.val.div(other.val)` is evaluated  *)
(* first and panics, so unc_div is never called and nothing is returned.   *)
(***************************************************************************)
C12_UncertaintyRunsOnZeroDivisor ==
    (op = "div" /\ IsZeroScalar(b.val)) =>
        /\ out.ok
        /\ out.unc = UncOp("div", a.unc, a.val, b.unc, b.val)

(***************************************************************************)
(* C12, amended: the payload of a returned entity is the operator's rule   *)
(* applied to the operands (a.unc, a.val, b.unc, b.val), whatever the      *)
(* scalar result is.  With a float V a zero divisor gives an infinite or   *)
(* NaN scalar and the payload is still unc_div of the same operands; with  *)
(* an integer V a zero divisor panics in the scalar division, before       *)
(* unc_div is called, and the operator returns nothing.                    *)
(***************************************************************************)
C12_ZeroDivisor ==
    /\ (op \in BinaryOps /\ out.ok) =>
          /\ out.unc.tuple = a.unc.tuple
          /\ Len(out.unc.elems) = Len(a.unc.elems)
          /\ inst.U = "generic" =>
                \A i \in 1..Len(a.unc.elems) :
                    out.unc.elems[i] =
                        [rule |-> "unc_" \o op,
                         su |-> a.unc.elems[i], sv |-> a.val,
                         ou |-> b.unc.elems[i], ov |-> b.val]
          /\ inst.U = "Unc" =>
                out.unc = UncOp(op, a.unc, a.val, b.unc, b.val)
    /\ (op = "div" /\ IsZeroScalar(b.val)) =>
          IF inst.V = "int"
          THEN out = Panicked
          ELSE /\ out.ok
               /\ ~Finite(out.val)
               /\ out.val = (IF IsZeroScalar(a.val) THEN NaN ELSE Inf(a.val.s))
    /\ (op \in BinaryOps /\ ~out.ok) => (op = "div" /\ inst.V = "int" /\ b.val = 0)

\* a non-zero float was divided by zero: the scalar is infinite, the payload
\* is the rule of the operands
C12_Witness ==
    /\ op = "div"
    /\ inst = F64Generic
    /\ IsZeroScalar(b.val)
    /\ out.ok
    /\ out.val = Inf(0 - 1)
    /\ Len(out.unc.elems) = 2

\* an integer was divided by zero
C12_WitnessInt ==
    /\ op = "div"
    /\ inst = IntGeneric
    /\ b.val = 0
    /\ a.val = 1
    /\ ~out.ok

\* zero was divided by zero under the policy Unc: NaN, and a payload
C12_WitnessNaN ==
    /\ op = "div"
    /\ inst = F64Unc
    /\ IsZeroScalar(a.val)
    /\ IsZeroScalar(b.val)
    /\ out.ok
    /\ out.val = NaN

(***************************************************************************)
(* Helpers of the claim on the policy Unc.                                 *)
(***************************************************************************)
\* the integer a float of Init stands for
IntOf(x) == x.s * ISqrt(x.n)

\* x is the non-negative real whose square is n / d
IsRootOf(x, n, d) == x.k = "fin" /\ x.s >= 0 /\ x.n * d = n * x.d

\* x is the real of sign s whose square is n / d
IsSignedRootOf(x, s, n, d) ==
    x.k = "fin" /\ x.n * d = n * x.d /\ x.s = (IF n = 0 THEN 0 ELSE s)

(***************************************************************************)
(* C13: under the policy Unc, with su, ou the operands' uncertainties and  *)
(* sv, ov their scalars: unc_add and unc_sub return sqrt(su^2 + ou^2)      *)
(* whatever the scalars are, so the two agree and are symmetric in the     *)
(* operands; unc_mul returns sqrt((su/sv)^2 + (ou/ov)^2) * sv * ov and     *)
(* unc_div returns sqrt((su/sv)^2 + (ou/ov)^2) * sv / ov, which for        *)
(* non-zero scalars are the reals of the sign of sv * ov whose squares are *)
(* su^2 ov^2 + ou^2 sv^2 and (su^2 ov^2 + ou^2 sv^2) / ov^4; with          *)
(* sv = ov = 1 all four give sqrt(su^2 + ou^2), 5 for 3 and 4; and         *)
(* (1.0, 3.0) + (5.0, 4.0) is (6.0, 5.0).                                  *)
(***************************************************************************)
C13_UncPolicyFormulas ==
    (inst = F64Unc /\ op \in BinaryOps) =>
        LET su == IntOf(a.unc.elems[1])
            ou == IntOf(b.unc.elems[1])
            sv == IntOf(a.val)
            ov == IntOf(b.val)
            r  == out.unc.elems[1]
            sq == su * su * ov * ov + ou * ou * sv * sv
        IN  /\ out.ok
            /\ ~out.unc.tuple /\ Len(out.unc.elems) = 1
            /\ op \in {"add", "sub"} =>
                  /\ IsRootOf(r, su * su + ou * ou, 1)
                  /\ out.unc = unc_add(b.unc, b.val, a.unc, a.val)
                  /\ out.unc = unc_sub(b.unc, b.val, a.unc, a.val)
            /\ (op = "mul" /\ sv # 0 /\ ov # 0) =>
                  IsSignedRootOf(r, Sign(sv * ov), sq, 1)
            /\ (op = "div" /\ sv # 0 /\ ov # 0) =>
                  IsSignedRootOf(r, Sign(sv * ov), sq, ov * ov * ov * ov)
            /\ (op \in {"mul", "div"} /\ (sv = 0 \/ ov = 0)) => ~Finite(r)
            /\ (sv = 1 /\ ov = 1) => IsRootOf(r, su * su + ou * ou, 1)
            /\ (sv = 1 /\ ov = 1 /\ su = 3 /\ ou = 4) => r = Flt(5)
            /\ (op = "add" /\ sv = 1 /\ su = 3 /\ ov = 5 /\ ou = 4) =>
                  out = Done(Flt(6), UncOf(Flt(5)))

\* (1.0, 3.0) + (5.0, 4.0) was computed
C13_Witness ==
    /\ inst = F64Unc
    /\ op = "add"
    /\ a = ValUnc(Flt(1), UncOf(Flt(3)))
    /\ b = ValUnc(Flt(5), UncOf(Flt(4)))
    /\ out = Done(Flt(6), UncOf(Flt(5)))

\* a product with scalars other than 1 and of opposite signs: the
\* uncertainty is -sqrt(73) = -sqrt(3^2 * 1^2 + 4^2 * 2^2)
C13_WitnessMul ==
    /\ inst = F64Unc
    /\ op = "mul"
    /\ a = ValUnc(Flt(2), UncOf(Flt(3)))
    /\ b = ValUnc(Flt(0 - 1), UncOf(Flt(4)))
    /\ out = Done(Flt(0 - 2), UncOf(Fin(0 - 1, 73, 1)))

\* a quotient: 5 / 2 with uncertainties 3 and 4 gives sqrt(436) / 4
C13_WitnessDiv ==
    /\ inst = F64Unc
    /\ op = "div"
    /\ a = ValUnc(Flt(5), UncOf(Flt(3)))
    /\ b = ValUnc(Flt(2), UncOf(Flt(4)))
    /\ out = Done(Fin(1, 25, 4), UncOf(Fin(1, 436, 16)))

\* all four rules give 5 for 3 and 4 with scalars 1
C13_WitnessSub ==
    /\ inst = F64Unc
    /\ op = "sub"
    /\ a = ValUnc(Flt(1), UncOf(Flt(3)))
    /\ b = ValUnc(Flt(1), UncOf(Flt(4)))
    /\ out = Done(Flt(0), UncOf(Flt(5)))

====
